---------------------------- MODULE Spec2Model ----------------------------
(***************************************************************************)
(* Lift of a 2D airfoil from Bernoulli's principle: the four programs      *)
(*   v1   lift-2D-airfoil-Bernoulli-no-uncertainties.c                     *)
(*   v2   lift-2D-airfoil-Bernoulli-temperature-humidity-elevation-...c    *)
(*   v3a  lift-2D-airfoil-Bernoulli-angle-of-attack-uncertain.c            *)
(*   v3p  lift-2D-airfoil-Bernoulli-pressure-coefficients-uncertain.c      *)
(* as one state machine.  A run picks a program, its command line, its     *)
(* table file and the contents of its uninitialised memory in Init, and    *)
(* then follows the program's control flow.                                *)
(*                                                                         *)
(* Numbers.  A C double is a fixed-point integer here:                     *)
(*   pressure coefficients, arguments of exp and pow    1/10000  (Unit)    *)
(*   temperature, humidity, pressures, velocities, area 1/100    (Centi)   *)
(*   elevation                                          1/10 m             *)
(*   density                                            1/1000 kg/m^3      *)
(*   lift                                               1/100000 N         *)
(* A character string is a sequence of one-character strings.              *)
(***************************************************************************)
EXTENDS Integers, Sequences, FiniteSets, TLC

(***************************************************************************)
(* Bounds of the model.                                                    *)
(***************************************************************************)
\* table files are generated from the seeds 0..MaxSeed
MaxSeed == 0
\* uninitialised memory holds one of the values GarbageStep * (0..MaxGarbage)
MaxGarbage == 1
\* tokens of the token-level specification have 0..MaxTokLen characters
MaxTokLen == 4

(***************************************************************************)
(* Fixed-point helpers.                                                    *)
(***************************************************************************)
Unit == 100 * 100
Centi == 10 * 10
NULL == "NULL"

Min(a, b) == IF a < b THEN a ELSE b
Fabs(x) == IF x < 0 THEN 0 - x ELSE x

\* truncating division, as C's conversion of a quotient towards zero
Quot(a, b) == IF a >= 0 THEN a \div b ELSE 0 - ((0 - a) \div b)

RECURSIVE SqrtSearch(_, _, _)
SqrtSearch(x, lo, hi) ==
    IF lo >= hi THEN lo
    ELSE LET mid == (lo + hi + 1) \div 2
         IN  IF mid * mid <= x THEN SqrtSearch(x, mid, hi)
                               ELSE SqrtSearch(x, lo, mid - 1)

\* the value sqrt returns on a domain error
NaN == 0 - 1

\* sqrt of a value in 1/10000, result in 1/100; a negative argument is a
\* domain error
Sqrt(x) == IF x < 0 THEN NaN ELSE SqrtSearch(x, 0, Min(x, 46340))

RECURSIVE SumRange(_, _, _)
\* f[lo] + ... + f[hi]
SumRange(f, lo, hi) ==
    IF lo > hi THEN 0
    ELSE IF lo = hi THEN f[lo]
    ELSE LET mid == (lo + hi) \div 2
         IN  SumRange(f, lo, mid) + SumRange(f, mid + 1, hi)

\* f[0] + ... + f[n-1]
SumTo(f, n) == SumRange(f, 0, n - 1)

(***************************************************************************)
(* Characters and the C string functions read_csv uses.                    *)
(***************************************************************************)
Digits == <<"0", "1", "2", "3", "4", "5", "6", "7", "8", "9">>
IsDigit(ch) == \E d \in 1..10 : Digits[d] = ch
DigitVal(ch) == (CHOOSE d \in 1..10 : Digits[d] = ch) - 1

Tail0(s, k) == SubSeq(s, k, Len(s))

RECURSIVE SkipWhile(_, _, _)
\* first position >= k of s whose character is not in set (Len(s)+1 if none)
SkipWhile(s, k, set) ==
    IF k <= Len(s) /\ s[k] \in set THEN SkipWhile(s, k + 1, set) ELSE k

RECURSIVE SkipUntil(_, _, _)
\* first position >= k of s whose character is in set (Len(s)+1 if none)
SkipUntil(s, k, set) ==
    IF k <= Len(s) /\ s[k] \notin set THEN SkipUntil(s, k + 1, set) ELSE k

\* read_csv's normalisation loop with a plausible slip: only a leading ','
\* is replaced
NormalizeFirstOnly(tok) ==
    [k \in 1..Len(tok) |-> IF k = 1 /\ tok[k] = "," THEN "." ELSE tok[k]]

\* the while loop of read_csv: every ',' of the token becomes '.', in place
Normalize(tok) ==
    [k \in 1..Len(tok) |-> IF tok[k] = "," THEN "." ELSE tok[k]]

RECURSIVE IntPart(_, _, _)
\* digits of s from position k on: the value, and the position after them
IntPart(s, k, acc) ==
    IF k <= Len(s) /\ IsDigit(s[k])
    THEN IntPart(s, k + 1, acc * 10 + DigitVal(s[k]))
    ELSE [val |-> acc, next |-> k]

RECURSIVE FracPart(_, _, _, _)
\* fraction digits of s from position k on, in 1/10000 (further digits are
\* below the model's resolution)
FracPart(s, k, place, acc) ==
    IF k <= Len(s) /\ IsDigit(s[k])
    THEN FracPart(s, k + 1, place \div 10, acc + place * DigitVal(s[k]))
    ELSE [val |-> acc, next |-> k]

\* atof: white space, an optional sign, digits, an optional '.' and digits;
\* the conversion stops at the first other character, and a string with no
\* digits converts to 0.  Result in 1/10000.
Atof(s) ==
    LET b == SkipWhile(s, 1, {" ", "\n", "\t"})
        neg == b <= Len(s) /\ s[b] = "-"
        d == IF b <= Len(s) /\ s[b] \in {"-", "+"} THEN b + 1 ELSE b
        ip == IntPart(s, d, 0)
        hasDot == ip.next <= Len(s) /\ s[ip.next] = "."
        fp == IF hasDot THEN FracPart(s, ip.next + 1, Unit \div 10, 0)
                        ELSE [val |-> 0, next |-> ip.next]
        any == ip.next > d \/ (hasDot /\ fp.next > ip.next + 1)
        mag == ip.val * Unit + fp.val
    IN  IF ~any THEN 0 ELSE IF neg THEN 0 - mag ELSE mag

\* strtok: skip the leading delimiters of rest; no character left: no token;
\* otherwise the token runs to the next delimiter, which is consumed
Strtok(rest, delims) ==
    LET b == SkipWhile(rest, 1, delims)
        e == SkipUntil(rest, b, delims)
    IN  IF b > Len(rest) THEN [tok |-> NULL, rest |-> <<>>]
        ELSE [tok |-> SubSeq(rest, b, e - 1), rest |-> Tail0(rest, e + 1)]

RECURSIVE TokLoop(_, _)
\* the tokens the for loop of read_csv visits after its first one
TokLoop(rest, acc) ==
    LET t == Strtok(rest, {";", "\n"})
    IN  IF t.tok = NULL THEN acc ELSE TokLoop(t.rest, Append(acc, t.tok))

\* the tokens the for loop of read_csv visits on one line, in order of j:
\* strtok(line, ";") first, strtok(NULL, ";\n") afterwards
LineTokens(line) ==
    LET t == Strtok(line, {";"})
    IN  IF t.tok = NULL THEN <<>> ELSE TokLoop(t.rest, <<t.tok>>)

\* the body of the for loop: normalise the token, then convert it
ParseToken(tok) == Atof(Normalize(tok))

(***************************************************************************)
(* Program constants.                                                      *)
(***************************************************************************)
sampleCount == 3
row == 140
col == 7
totalLength == (row - 1) * 2
\* free stream velocity V, m/s
V == 30
\* airfoil area A = 2.3E-1, in 1/100 m^2
Area == 23
\* the size main's read_csv passes to fgets
FgetsSize == 4098

Variants == {"v1", "v2", "v3a", "v3p"}
IsV3(var) == var \in {"v3a", "v3p"}

\* char line[...] of read_csv
LineBufSize(var) == IF var = "v3a" THEN 4098 ELSE 2024

(***************************************************************************)
(* The hardcoded coefficient tables of v1 and v2, in 1/10000.  The over-   *)
(* surface initialiser has no comma between -1.4999 and -1.4769: the two   *)
(* literals are one expression, -1.4999 - 1.4769 = -2.9768, and the array  *)
(* has 83 elements.                                                        *)
(***************************************************************************)
OverTable ==
    <<-23444, -24402, -25411, -25770, -27322, -27316, -25977,
      -25750, -25415, -23405, -23121, -22061, -21597, -20826,
      -19988, -19037, -17997, -17692, -16300, -16235, -29768,
      -14098, -13809, -13528, -13367, -13181, -12695, -12390,
      -11633, -11599, -10807, -10715, -10127, -9936, -9336,
      -8987, -8544, -8222, -7642, -7355, -6851, -6450,
      -6061, -5636, -5380, -4927, -4825, -4468, -4431,
      -4454, -4440, -4329, -4205, -4094, -3889, -3636,
      -3490, -3179, -2992, -2832, -2727, -2596, -2451,
      -2248, -2195, -2012, -1998, -1808, -1781, -1831,
      -1885, -1837, -1769, -1889, -1865, -1799, -1841,
      -1785, -1838, -1742, -1779, -1823, -1789>>

UnderTable ==
    <<8111, 9226, 10007, 9934, 8905, 8737, 7471,
      7336, 7140, 6252, 6152, 5857, 5611, 4833,
      4290, 4030, 3861, 3781, 3431, 3423, 3439,
      3448, 3393, 3353, 3354, 3368, 3345, 3272,
      3228, 3067, 3057, 2782, 2750, 2539, 2432,
      2017, 1893, 2187, 2461, 2578, 2585, 2675,
      2711, 2632, 2392, 2206, 1912, 1853, 1643,
      1539, 1427, 1439, 1585, 1679, 1675, 1579,
      1564, 1590, 1640, 1606, 1438, 1286, 1278,
      1299, 1214, 1199, 1316, 1322, 1217, 1134,
      1001, 1020, 1118, 1173, 1216, 1122, 1017,
      1134, 1031, 1022, 1164, 1036, 1032, 1174>>

\* a C array indexed from 0
Arr(seq) == [k \in 0..(Len(seq) - 1) |-> seq[k + 1]]
SizeOf(arr) == Cardinality(DOMAIN arr)

(***************************************************************************)
(* The inputs T, h, Rh: how each program constructs them, and the sample   *)
(* values a run may draw.  T in 1/100 C, h in 1/10 m, Rh in 1/100.         *)
(***************************************************************************)
Const(x) == [kind |-> "const", a |-> x, b |-> x]
Uniform(lo, hi) == [kind |-> "uniform", a |-> lo, b |-> hi]
Gauss(mean, dev) == [kind |-> "gauss", a |-> mean, b |-> dev]

\* is x a value the distribution d can take
InSupport(d, x) ==
    CASE d.kind = "const" -> x = d.a
      [] d.kind = "uniform" -> d.a <= x /\ x <= d.b
      [] d.kind = "gauss" -> d.b > 0 \/ x = d.a

TDist(var) == IF var = "v2" THEN Gauss(0, 50 * Centi) ELSE Const(15 * Centi)
HDist(var) == IF var = "v2" THEN Uniform(0, 110192) ELSE Const(0)
RhDist(var) == IF var = "v2" THEN Uniform(0, 1 * Centi) ELSE Const(0)

\* candidate sample values
TGrid == {0 - 27315, 0 - 23730, 0 - 50 * Centi, 0, 15 * Centi, 50 * Centi}
HGrid == {0, 50000, 110192}
RhGrid == {0, 50, 100}

Samples(var) ==
    [T : {x \in TGrid : InSupport(TDist(var), x)},
     h : {x \in HGrid : InSupport(HDist(var), x)},
     Rh : {x \in RhGrid : InSupport(RhDist(var), x)}]

(***************************************************************************)
(* The pressure and density formulas of loadInputs.                        *)
(***************************************************************************)
\* T + 273.15 and T + 237.3, in 1/100
KelvinDen(T) == T + 27315
SatDen(T) == T + 23730

\* e^x for |x| <= 1/2, x and the result in 1/10000
ExpSeries(x) ==
    LET t2 == (x * x) \div (2 * Unit)
        t3 == (t2 * x) \div (3 * Unit)
        t4 == (t3 * x) \div (4 * Unit)
        t5 == (t4 * x) \div (5 * Unit)
    IN  Unit + x + t2 + t3 + t4 + t5

RECURSIVE Exp(_)
\* exp, x and the result in 1/10000
Exp(x) ==
    IF x < 0 - 20 * Unit THEN 0
    ELSE IF Fabs(x) > Unit \div 2
         THEN LET e == Exp(Quot(x, 2)) IN (e * e) \div Unit
         ELSE ExpSeries(x)

\* pow(10.0, y), y and the result in 1/10000
Pow10(y) == Exp((y * 23026) \div Unit)

\* Pair = exp((-9.81 * 0.0289644 * h) / (8.31432 * (T + 273.15))) * 101325.0
\* in 1/100 Pa; T + 273.15 is not 0
PairOf(T, h) ==
    LET gM == (981 * 289644) \div 100000
        num == 0 - gM * h
        den == 8314 * KelvinDen(T)
        x == IF Fabs(den) < Unit THEN 0 - 20 * Unit - 1
             ELSE Quot(num, den \div Unit)
    IN  (Exp(x) * 101325) \div Centi

\* Psat = 6.1078 * pow(10.0, 7.5 * T / (T + 237.3)), in 1/100; T + 237.3 is
\* not 0
PsatOf(T) ==
    LET y == Quot(75 * T * 1000, SatDen(T))
    IN  (6108 * Pow10(y)) \div (10 * Unit)

\* Pv = Psat * Rh
PvOf(psat, Rh) == (psat * Rh) \div Centi

\* r = Pd / (287.058 * (T + 273.15)) + Pv / (461.495 * (T + 273.15)), in
\* 1/1000 kg/m^3; T + 273.15 is not 0
DensityOf(pd, pv, T) ==
    LET rdT == (2871 * KelvinDen(T)) \div Centi
        rvT == (4615 * KelvinDen(T)) \div Centi
    IN  Quot(pd * 100, rdT) + Quot(pv * 100, rvT)

(***************************************************************************)
(* The velocity step and the lift formula.                                 *)
(***************************************************************************)
\* the velocity step without fabs
SqrtArgNoAbs(cp) == Unit - cp

\* the argument the velocity loop hands to sqrt: fabs(1 - Cp)
SqrtArg(cp) == Fabs(Unit - cp)

\* V * sqrt(fabs(1 - Cp)), in 1/100 m/s
VelTerm(cp) == V * Sqrt(SqrtArg(cp))

\* pow(x, 2) of a velocity, in m^2/s^2 times 100
Pow2(x) == (x * x) \div Centi

\* main: liftForce = r * A * (pow(v1, 2) - pow(v2, 2)) / 2.0, in 1/100000 N
LiftOf(r0, A0, a, b) == Quot(r0 * A0 * Quot(Pow2(a) - Pow2(b), Centi), 2)

(***************************************************************************)
(* The table file: the environment of the v3 programs.  A file is named by *)
(* a record [kind, badRow, seed]; its lines are generated on demand.  Row  *)
(* 0 is the header, rows 1..139 hold the position and six coefficients     *)
(* with two decimals, ';' between columns, ',' as decimal separator.       *)
(***************************************************************************)
RECURSIVE FormatNat(_)
FormatNat(n) ==
    IF n < 10 THEN <<Digits[n + 1]>>
    ELSE FormatNat(n \div 10) \o <<Digits[(n % 10) + 1]>>

\* a value in 1/100 written with the decimal separator sep
FormatCenti(v, sep) ==
    (IF v < 0 THEN <<"-">> ELSE <<>>) \o FormatNat(Fabs(v) \div 100)
        \o <<sep, Digits[((Fabs(v) \div 10) % 10) + 1], Digits[(Fabs(v) % 10) + 1]>>

\* the coefficient written at row k, column c, in 1/100: -2.50 .. -0.50 in
\* the over-surface columns 1..3, -0.50 .. 1.50 in the under-surface
\* columns 4..6
CellCenti(seed, k, c) ==
    (((k * 7 + c * 13 + seed * 5) % 21) * 10) - (IF c <= 3 THEN 250 ELSE 50)

RECURSIVE Join(_, _)
Join(toks, sep) ==
    IF Len(toks) = 0 THEN <<>>
    ELSE IF Len(toks) = 1 THEN toks[1]
    ELSE toks[1] \o <<sep>> \o Join(Tail(toks), sep)

BadKinds == {"dot", "missingcol", "extracol", "empty", "nonnumeric", "short", "long"}
BadRows == {1, 70, row - 1}
Seeds == 0..MaxSeed
NoInput == [kind |-> "none", badRow |-> 0, seed |-> 0]

Inputs ==
    {[kind |-> "ok", badRow |-> 0, seed |-> s] : s \in Seeds}
    \cup {[kind |-> "missing", badRow |-> 0, seed |-> 0]}
    \cup [kind : BadKinds, badRow : BadRows, seed : Seeds]

\* the number of lines of the file
NumLines(f) ==
    CASE f.kind = "short" -> f.badRow
      [] f.kind = "long" -> row + 1
      [] f.kind \in {"none", "missing"} -> 0
      [] OTHER -> row

\* the fields of line k, before they are joined with ';'
RowFields(f, k) ==
    LET bad == k = f.badRow
        sep == IF bad /\ f.kind = "dot" THEN "." ELSE ","
        cell(c) == IF c = 0 THEN FormatNat(k)
                   ELSE IF c > col - 1 THEN FormatCenti(CellCenti(f.seed, k, 1), sep)
                   ELSE IF bad /\ f.kind = "empty" /\ c = 3 THEN <<>>
                   ELSE IF bad /\ f.kind = "nonnumeric" /\ c = 2 THEN <<"x">>
                   ELSE FormatCenti(CellCenti(f.seed, k, c), sep)
        n == IF bad /\ f.kind = "missingcol" THEN col - 1
             ELSE IF bad /\ f.kind = "extracol" THEN col + 1
             ELSE col
    IN  IF k = 0 THEN [c \in 1..col |-> <<"x">>]
        ELSE [c \in 1..n |-> cell(c - 1)]

FileLine(f, k) == Join(RowFields(f, k), ";") \o <<"\n">>

\* can fopen(name, "r") open the file
Openable(name, f) == name \in {"argv1", "all_angles.csv"} /\ f.kind \notin {"none", "missing"}

GarbageStep == 83 * Centi
GarbageVals == {g * GarbageStep : g \in 0..MaxGarbage}

(***************************************************************************)
(* The state.                                                              *)
(***************************************************************************)
VARIABLES
    variant,    \* which program runs
    argc,       \* main's argc
    input,      \* the table file of the run
    sample,     \* the values of T, h, Rh in this run
    pc,         \* the statement the program is at
    fname,      \* main's / loadInputs' fname
    file,       \* read_csv's FILE *file
    lineNo,     \* lines of the file consumed by fgets
    i,          \* read_csv's row counter i
    data,       \* double **data
    Pair, Psat, Pv, Pd,
    cols,       \* the six empricalPressureOver/Under..AOA arrays
    curves,     \* empricalPressure10AOA, 5AOA, 0AOA
    matrix,     \* empiricalPressureCoefficientsUncertain
    coeff,      \* empiricalPressureCoefficients
    v1, v2, A, r, liftForce,
    out,        \* what was printed: "usage", "Lift force"
    exitStatus, \* the exit status, once pc = "exited"
    ntok,       \* per row, the tokens read_csv stored (the final j)
    oob,        \* the writes data[i][j] of read_csv with j >= col
    readNull,   \* fgets was called with a NULL stream
    fgetsCalls, \* per call of fgets, the size it was given and the buffer's size
    argv1Read,  \* argv[1] was read
    divByZero,  \* the denominators that were 0
    nonFinite,  \* the pressures and the density are not finite numbers
    defined,    \* the variables of main that have been assigned
    cellsRead,  \* the cells data[i][c] loadInputs read
    curveWrites,\* per position, how often the combining loop assigned it
    vReads,     \* the positions of coeff the velocity loop added to v1, to v2
    sqrtArgs,   \* the arguments sqrt was called with
    accStart,   \* what *v1 and *v2 held when the velocity loop began
    tok,        \* the token-level specification: the token strtok returned,
    normTok,    \*   the token after the normalisation loop,
    value,      \*   the number atof made of it,
    pcTok       \*   and where the loop body is

vars == <<variant, argc, input, sample, pc, fname, file, lineNo, i, data,
          Pair, Psat, Pv, Pd, cols, curves, matrix, coeff, v1, v2, A, r,
          liftForce, out, exitStatus, ntok, oob, readNull, fgetsCalls, argv1Read,
          divByZero, nonFinite, defined, cellsRead, curveWrites, vReads,
          sqrtArgs, accStart, tok, normTok, value, pcTok>>

tokVars == <<tok, normTok, value, pcTok>>

\* the statements of each program, in the order it runs them
Order(var) ==
    CASE var \in {"v1", "v2"} ->
             <<"pressures", "velocity", "average", "density", "lift",
               "print", "exited">>
      [] var = "v3a" ->
             <<"main", "strcpy", "malloc", "fopen", "fgets", "pressures",
               "split", "combine", "matrix", "dist", "velocity", "average",
               "density", "lift", "print", "exited">>
      [] var = "v3p" ->
             <<"pressures", "malloc", "fopen", "fgets", "split", "combine",
               "matrix", "dist", "velocity", "average", "density", "lift",
               "print", "exited">>

After(var, p) ==
    LET o == Order(var)
    IN  o[(CHOOSE k \in 1..Len(o) : o[k] = p) + 1]

ArgcVals == {0, 1, 2}

Init ==
    /\ variant \in Variants
    /\ argc \in IF variant = "v3a" THEN ArgcVals ELSE {1}
    /\ input \in IF variant = "v3p" \/ (variant = "v3a" /\ argc >= 2)
                 THEN Inputs ELSE {NoInput}
    /\ sample \in Samples(variant)
    /\ pc = Head(Order(variant))
    /\ fname = IF variant = "v3p" THEN "all_angles.csv" ELSE "unset"
    /\ file = "unset"
    /\ lineNo = 0
    /\ i = 0
    /\ data = <<>>
    /\ Pair = 0 /\ Psat = 0 /\ Pv = 0 /\ Pd = 0
    /\ cols = <<>> /\ curves = <<>> /\ matrix = <<>> /\ coeff = <<>>
    \* double A, v1, v2, r, ..., liftForce; without initialisers: they are in
    \* "defined" once assigned, and what is here before that is not their value
    /\ v1 = 0 /\ v2 = 0 /\ A = 0 /\ r = 0 /\ liftForce = 0
    /\ accStart = [v1 |-> 0, v2 |-> 0]
    /\ tok = <<>> /\ normTok = <<>> /\ value = 0 /\ pcTok = "idle"
    /\ out = <<>>
    /\ exitStatus = 0 - 1
    /\ ntok = <<>>
    /\ oob = {}
    /\ readNull = FALSE
    /\ fgetsCalls = {}
    /\ argv1Read = FALSE
    /\ divByZero = {}
    /\ nonFinite = FALSE
    /\ defined = {}
    /\ cellsRead = {}
    /\ curveWrites = <<>>
    /\ vReads = [v1 |-> {}, v2 |-> {}]
    /\ sqrtArgs = {}

(***************************************************************************)
(* Leaving the program.                                                    *)
(***************************************************************************)
\* the exit status of a process killed by SIGSEGV, by SIGABRT
SIGSEGV == 128 + 11
SIGABRT == 128 + 6

\* the process ends with the given status
Exit(status) ==
    /\ pc' = "exited"
    /\ exitStatus' = status

Step == pc' = After(variant, pc)

(***************************************************************************)
(* main of v3a, up to the call of read_csv.                                *)
(***************************************************************************)
\* if (argc < 1)
MissingArg(n) == n < 1

\* if (argc < 1) { printf("Please specify the CSV file as an input.\n"); exit(0); }
MainArgs ==
    /\ pc = "main"
    /\ IF MissingArg(argc)
       THEN /\ out' = Append(out, "usage")
            /\ Exit(0)
       ELSE /\ Step
            /\ UNCHANGED <<out, exitStatus>>
    /\ UNCHANGED tokVars
    /\ UNCHANGED <<variant, argc, input, sample, fname, file, lineNo, i, data,
                   Pair, Psat, Pv, Pd, cols, curves, matrix, coeff, v1, v2, A,
                   r, liftForce, ntok, oob, readNull, fgetsCalls, argv1Read, divByZero,
                   nonFinite, defined, cellsRead, curveWrites, vReads,
                   sqrtArgs, accStart>>

\* char fname[256]; strcpy(fname, argv[1]);  With argc = 1, argv[1] is the
\* null pointer and strcpy reads through it: the process is killed, or
\* fname holds whatever was read.
CopyFname ==
    /\ pc = "strcpy"
    /\ argv1Read' = TRUE
    /\ IF argc >= 2
       THEN /\ fname' = "argv1"
            /\ Step
            /\ UNCHANGED exitStatus
       ELSE \/ /\ Exit(SIGSEGV)
               /\ UNCHANGED fname
            \/ /\ fname' = "garbage"
               /\ Step
               /\ UNCHANGED exitStatus
    /\ UNCHANGED tokVars
    /\ UNCHANGED <<variant, argc, input, sample, file, lineNo, i, data, Pair,
                   Psat, Pv, Pd, cols, curves, matrix, coeff, v1, v2, A, r,
                   liftForce, out, ntok, oob, readNull, fgetsCalls, divByZero, nonFinite,
                   defined, cellsRead, curveWrites, vReads, sqrtArgs,
                   accStart>>

\* data = malloc(row * sizeof(double *)); data[i] = malloc(col * sizeof(double))
\* malloc does not initialise the cells: a cell read_csv has not assigned
\* (ntok says which) has no value yet, and the 0 here is not one
AllocData ==
    /\ pc = "malloc"
    /\ data' = [k \in 0..(row - 1) |-> [c \in 0..(col - 1) |-> 0]]
    /\ ntok' = [k \in 0..(row - 1) |-> 0]
    /\ Step
    /\ UNCHANGED tokVars
    /\ UNCHANGED <<variant, argc, input, sample, fname, file, lineNo, i, Pair,
                   Psat, Pv, Pd, cols, curves, matrix, coeff, v1, v2, A, r,
                   liftForce, out, exitStatus, oob, readNull, fgetsCalls, argv1Read,
                   divByZero, nonFinite, defined, cellsRead, curveWrites,
                   vReads, sqrtArgs, accStart>>

(***************************************************************************)
(* read_csv.                                                               *)
(***************************************************************************)
\* file = fopen(filename, "r"); int i = 0;   The result is not tested.
OpenFile ==
    /\ pc = "fopen"
    /\ file' = IF Openable(fname, input) THEN "open" ELSE NULL
    /\ i' = 0
    /\ lineNo' = 0
    /\ Step
    /\ UNCHANGED tokVars
    /\ UNCHANGED <<variant, argc, input, sample, fname, data, Pair, Psat, Pv,
                   Pd, cols, curves, matrix, coeff, v1, v2, A, r, liftForce,
                   out, exitStatus, ntok, oob, readNull, fgetsCalls, argv1Read, divByZero,
                   nonFinite, defined, cellsRead, curveWrites, vReads,
                   sqrtArgs, accStart>>

\* the for loop over the tokens of one line: data[i][j] = atof(tok) for
\* j = 0, 1, ... with no test of j against col
StoreRow(old, toks) ==
    [c \in 0..(col - 1) |->
        IF c < Len(toks) THEN ParseToken(toks[c + 1]) ELSE old[c]]

\* one evaluation of  while (fgets(line, 4098, file) && (i < row))  and of
\* the loop body.  fgets on a NULL stream is undefined: the process is
\* killed, or fgets returns NULL.  A write data[i][j] with j >= col lands
\* outside the row's allocation: the heap check of the following free
\* aborts, or the run goes on.  Every call is recorded with the size it
\* passes and the size of line[]; the lines of the files here are shorter
\* than both.
ReadLine ==
    /\ pc = "fgets"
    /\ fgetsCalls' = fgetsCalls \cup {[size |-> FgetsSize,
                                     buf |-> LineBufSize(variant)]}
    /\ IF file = NULL
       THEN /\ readNull' = TRUE
            /\ \/ Exit(SIGSEGV)
               \/ Step /\ UNCHANGED exitStatus
            /\ UNCHANGED <<lineNo, i, data, ntok, oob>>
       ELSE IF lineNo >= NumLines(input)
       THEN /\ Step
            /\ UNCHANGED <<lineNo, i, data, ntok, oob, readNull, exitStatus>>
       ELSE IF ~(i < row)
       THEN /\ lineNo' = lineNo + 1
            /\ Step
            /\ UNCHANGED <<i, data, ntok, oob, readNull, exitStatus>>
       ELSE LET line == SubSeq(FileLine(input, lineNo), 1,
                               Min(Len(FileLine(input, lineNo)), FgetsSize - 1))
                toks == LineTokens(line)
            IN  /\ lineNo' = lineNo + 1
                /\ data' = [data EXCEPT ![i] = StoreRow(@, toks)]
                /\ ntok' = [ntok EXCEPT ![i] = Len(toks)]
                /\ oob' = oob \cup {<<i, j>> : j \in col..(Len(toks) - 1)}
                /\ i' = i + 1
                /\ IF Len(toks) > col
                   THEN \/ Exit(SIGABRT)
                        \/ UNCHANGED <<pc, exitStatus>>
                   ELSE UNCHANGED <<pc, exitStatus>>
                /\ UNCHANGED readNull
    /\ UNCHANGED tokVars
    /\ UNCHANGED <<variant, argc, input, sample, fname, file, Pair, Psat, Pv,
                   Pd, cols, curves, matrix, coeff, v1, v2, A, r, liftForce,
                   out, argv1Read, divByZero, nonFinite, defined, cellsRead,
                   curveWrites, vReads, sqrtArgs, accStart>>

(***************************************************************************)
(* loadInputs.                                                             *)
(***************************************************************************)
\* Pair, Psat, Pv, Pd from T, h, Rh.  With T + 237.3 = 0 the exponent of
\* pow is -infinity and Psat is 0; with T + 273.15 = 0 no result is a
\* finite number.
Pressures ==
    /\ pc = "pressures"
    /\ divByZero' = divByZero
          \cup (IF KelvinDen(sample.T) = 0 THEN {"T+273.15"} ELSE {})
          \cup (IF SatDen(sample.T) = 0 THEN {"T+237.3"} ELSE {})
    /\ IF KelvinDen(sample.T) = 0
       THEN /\ nonFinite' = TRUE
            /\ UNCHANGED <<Pair, Psat, Pv, Pd>>
       ELSE LET psat == IF SatDen(sample.T) = 0 THEN 0 ELSE PsatOf(sample.T)
            IN  /\ Pair' = PairOf(sample.T, sample.h)
                /\ Psat' = psat
                /\ Pv' = PvOf(psat, sample.Rh)
                /\ Pd' = PairOf(sample.T, sample.h) - PvOf(psat, sample.Rh)
                /\ UNCHANGED nonFinite
    /\ Step
    /\ UNCHANGED tokVars
    /\ UNCHANGED <<variant, argc, input, sample, fname, file, lineNo, i, data,
                   cols, curves, matrix, coeff, v1, v2, A, r, liftForce, out,
                   exitStatus, ntok, oob, readNull, fgetsCalls, argv1Read, defined,
                   cellsRead, curveWrites, vReads, sqrtArgs, accStart>>

\* the rows of data the splitting loop visits: for (int i = 1; i < 140; i++)
SplitRows == 1..(140 - 1)

\* the column of data each of the six arrays is filled from
ColOf ==
    [Over10 |-> 1, Over5 |-> 2, Over0 |-> 3,
     Under0 |-> 4, Under5 |-> 5, Under10 |-> 6]

\* empricalPressureOver10AOA[i-1] = data[i][1]; ... Under10AOA[i-1] = data[i][6]
Split(d) ==
    [a \in DOMAIN ColOf |-> [k \in {n - 1 : n \in SplitRows} |-> d[k + 1][ColOf[a]]]]

\* data as loadInputs reads it: a cell that was never assigned yields
\* whatever the allocation held
Cells(d, nt, g) ==
    [k \in 0..(row - 1) |-> [c \in 0..(col - 1) |->
        IF c < nt[k] THEN d[k][c] ELSE g]]

SplitColumns ==
    /\ pc = "split"
    /\ \E g \in GarbageVals : cols' = Split(Cells(data, ntok, g))
    /\ cellsRead' = {<<n, ColOf[a]>> : n \in SplitRows, a \in DOMAIN ColOf}
    /\ Step
    /\ UNCHANGED tokVars
    /\ UNCHANGED <<variant, argc, input, sample, fname, file, lineNo, i, data,
                   Pair, Psat, Pv, Pd, curves, matrix, coeff, v1, v2, A, r,
                   liftForce, out, exitStatus, ntok, oob, readNull, fgetsCalls, argv1Read,
                   divByZero, nonFinite, defined, curveWrites, vReads,
                   sqrtArgs, accStart>>

\* the iterations of the combining loop: for (i = 0; i < totalLength/2; i++)
CombineIters == 0..((totalLength \div 2) - 1)

\* the combining loop with the two halves of the curve exchanged
CombineSwapped(over, under) ==
    [p \in 0..(totalLength - 1) |->
        IF p - (row - 1) \in CombineIters THEN over[p - (row - 1)]
        ELSE under[p]]

\* curve[i] = over[i]; curve[i + row - 1] = under[i];
Combine(over, under) ==
    [p \in 0..(totalLength - 1) |->
        IF p - (row - 1) \in CombineIters THEN under[p - (row - 1)]
        ELSE over[p]]

\* how often the combining loop assigns position p of a curve
CombineCount(p) ==
    Cardinality({k \in CombineIters : k = p})
        + Cardinality({k \in CombineIters : k + row - 1 = p})

\* curves[0], [1], [2]: empricalPressure10AOA, 5AOA, 0AOA
CombineCurves ==
    /\ pc = "combine"
    /\ curves' = [j \in 0..(sampleCount - 1) |->
                    CASE j = 0 -> Combine(cols.Over10, cols.Under10)
                      [] j = 1 -> Combine(cols.Over5, cols.Under5)
                      [] j = 2 -> Combine(cols.Over0, cols.Under0)]
    /\ curveWrites' = [p \in 0..(totalLength - 1) |-> CombineCount(p)]
    /\ Step
    /\ UNCHANGED tokVars
    /\ UNCHANGED <<variant, argc, input, sample, fname, file, lineNo, i, data,
                   Pair, Psat, Pv, Pd, cols, matrix, coeff, v1, v2, A, r,
                   liftForce, out, exitStatus, ntok, oob, readNull, fgetsCalls, argv1Read,
                   divByZero, nonFinite, defined, cellsRead, vReads, sqrtArgs,
                   accStart>>

\* v3a: for (i = 0; i < totalLength; i++) { m[0][i] = c10[i]; m[1][i] = c5[i];
\* m[2][i] = c0[i]; }
MatrixFilled(cv) ==
    [j \in 0..(sampleCount - 1) |-> [p \in 0..(totalLength - 1) |-> cv[j][p]]]

\* v3p: double m[sampleCount][2*(row-1)] = { *c10, *c5, *c0 };  The three
\* scalars initialise m[0][0], m[0][1], m[0][2]; every other element is 0.
MatrixInitialised(cv) ==
    [j \in 0..(sampleCount - 1) |-> [p \in 0..(totalLength - 1) |->
        IF j = 0 /\ p < sampleCount THEN cv[p][0] ELSE 0]]

BuildMatrix ==
    /\ pc = "matrix"
    /\ matrix' = IF variant = "v3a" THEN MatrixFilled(curves)
                                    ELSE MatrixInitialised(curves)
    /\ Step
    /\ UNCHANGED tokVars
    /\ UNCHANGED <<variant, argc, input, sample, fname, file, lineNo, i, data,
                   Pair, Psat, Pv, Pd, cols, curves, coeff, v1, v2, A, r,
                   liftForce, out, exitStatus, ntok, oob, readNull, fgetsCalls, argv1Read,
                   divByZero, nonFinite, defined, cellsRead, curveWrites,
                   vReads, sqrtArgs, accStart>>

\* libUncertainDoubleDistFromMultidimensionalSamples(dst, samples, k, n):
\* dst[p] is the empirical distribution over samples[0..k-1][p].  A run
\* follows one scenario s: dst[p] takes the value samples[s][p].
DistFromMultidimensionalSamples(m, k, n, s) == [p \in 0..(n - 1) |-> m[s][p]]

DistFromSamples ==
    /\ pc = "dist"
    /\ \E s \in 0..(sampleCount - 1) :
          coeff' = DistFromMultidimensionalSamples(matrix, sampleCount,
                                                   totalLength, s)
    /\ Step
    /\ UNCHANGED tokVars
    /\ UNCHANGED <<variant, argc, input, sample, fname, file, lineNo, i, data,
                   Pair, Psat, Pv, Pd, cols, curves, matrix, v1, v2, A, r,
                   liftForce, out, exitStatus, ntok, oob, readNull, fgetsCalls, argv1Read,
                   divByZero, nonFinite, defined, cellsRead, curveWrites,
                   vReads, sqrtArgs, accStart>>

(***************************************************************************)
(* The velocity loop of loadInputs, in the four programs.                  *)
(***************************************************************************)
\* the array whose elements are added to *v1:
\*   v1  Cp1 (under the airfoil)   v2  ...OverAirfoil   v3  the coefficients
V1Array(var, cf) ==
    CASE var = "v1" -> Arr(UnderTable)
      [] var = "v2" -> Arr(OverTable)
      [] OTHER -> cf

\* the array whose elements are added to *v2:
\*   v1  Cp2 (over the airfoil)    v2  ...UnderAirfoil  v3  the coefficients
V2Array(var, cf) ==
    CASE var = "v1" -> Arr(OverTable)
      [] var = "v2" -> Arr(UnderTable)
      [] OTHER -> cf

\* the surface whose coefficients are added to *v1, to *v2
V1Surface(var) == IF var = "v1" THEN "under" ELSE "over"
V2Surface(var) == IF var = "v1" THEN "over" ELSE "under"

\* the index read for *v1 and for *v2 in iteration k
V1Index(var, k) == k
V2Index(var, k) == IF IsV3(var) THEN row - 1 + k ELSE k

\* the loop bound: sizeof(over-surface array)/sizeof(double) in v1 and v2,
\* sizeof(empiricalPressureCoefficients)/sizeof(double)/2 in v3
LoopCount(var) == IF IsV3(var) THEN totalLength \div 2 ELSE Len(OverTable)

\* the divisors of  *v1 /= ...;  *v2 /= ...;
V1Divisor(var) ==
    CASE var = "v1" -> Len(UnderTable)
      [] var = "v2" -> Len(OverTable)
      [] OTHER -> totalLength
V2Divisor(var) ==
    CASE var = "v1" -> Len(OverTable)
      [] var = "v2" -> Len(UnderTable)
      [] OTHER -> totalLength

\* for (i = 0; i < n; i++) { *v1 += V*sqrt(fabs(1-a[i])); *v2 += V*sqrt(fabs(1-b[..])); }
\* main never assigned v1 and v2: the sums start from what the two stack
\* slots held
VelocityLoop ==
    /\ pc = "velocity"
    /\ LET n == LoopCount(variant)
           a == V1Array(variant, coeff)
           b == V2Array(variant, coeff)
           t1 == [k \in 0..(n - 1) |-> VelTerm(a[V1Index(variant, k)])]
           t2 == [k \in 0..(n - 1) |-> VelTerm(b[V2Index(variant, k)])]
       IN  /\ \E g1 \in GarbageVals, g2 \in GarbageVals :
                 LET s1 == IF "v1" \in defined THEN v1 ELSE g1
                     s2 == IF "v2" \in defined THEN v2 ELSE g2
                 IN  /\ accStart' = [v1 |-> s1, v2 |-> s2]
                     /\ v1' = s1 + SumTo(t1, n)
                     /\ v2' = s2 + SumTo(t2, n)
           /\ vReads' = [v1 |-> {V1Index(variant, k) : k \in 0..(n - 1)},
                         v2 |-> {V2Index(variant, k) : k \in 0..(n - 1)}]
           /\ sqrtArgs' = {SqrtArg(a[V1Index(variant, k)]) : k \in 0..(n - 1)}
                    \cup {SqrtArg(b[V2Index(variant, k)]) : k \in 0..(n - 1)}
    /\ Step
    /\ UNCHANGED tokVars
    /\ UNCHANGED <<variant, argc, input, sample, fname, file, lineNo, i, data,
                   Pair, Psat, Pv, Pd, cols, curves, matrix, coeff, A, r,
                   liftForce, out, exitStatus, ntok, oob, readNull, fgetsCalls, argv1Read,
                   divByZero, nonFinite, defined, cellsRead, curveWrites>>

\* *v1 /= sizeof(..)/sizeof(double);  *v2 /= sizeof(..)/sizeof(double);
Average ==
    /\ pc = "average"
    /\ v1' = Quot(v1, V1Divisor(variant))
    /\ v2' = Quot(v2, V2Divisor(variant))
    /\ Step
    /\ UNCHANGED tokVars
    /\ UNCHANGED <<variant, argc, input, sample, fname, file, lineNo, i, data,
                   Pair, Psat, Pv, Pd, cols, curves, matrix, coeff, A, r,
                   liftForce, out, exitStatus, ntok, oob, readNull, fgetsCalls, argv1Read,
                   divByZero, nonFinite, defined, cellsRead, curveWrites,
                   vReads, sqrtArgs, accStart>>

\* *A = 2.3E-1;  *r = (Pd/(287.058*(T+273.15)))+(Pv/(461.495*(T+273.15)));
AreaDensity ==
    /\ pc = "density"
    /\ A' = Area
    /\ r' = IF KelvinDen(sample.T) = 0 THEN 0 ELSE DensityOf(Pd, Pv, sample.T)
    /\ divByZero' = divByZero
          \cup (IF KelvinDen(sample.T) = 0 THEN {"T+273.15"} ELSE {})
    /\ defined' = defined \cup {"A", "r"}
    /\ Step
    /\ UNCHANGED tokVars
    /\ UNCHANGED <<variant, argc, input, sample, fname, file, lineNo, i, data,
                   Pair, Psat, Pv, Pd, cols, curves, matrix, coeff, v1, v2,
                   liftForce, out, exitStatus, ntok, oob, readNull, fgetsCalls, argv1Read,
                   nonFinite, cellsRead, curveWrites, vReads, sqrtArgs,
                   accStart>>

(***************************************************************************)
(* main, after loadInputs.                                                 *)
(***************************************************************************)
\* liftForce = r*A*(pow(v1, 2)-pow(v2, 2)) / 2.0;
ComputeLift ==
    /\ pc = "lift"
    /\ liftForce' = LiftOf(r, A, v1, v2)
    /\ Step
    /\ UNCHANGED tokVars
    /\ UNCHANGED <<variant, argc, input, sample, fname, file, lineNo, i, data,
                   Pair, Psat, Pv, Pd, cols, curves, matrix, coeff, v1, v2, A,
                   r, out, exitStatus, ntok, oob, readNull, fgetsCalls, argv1Read,
                   divByZero, nonFinite, defined, cellsRead, curveWrites,
                   vReads, sqrtArgs, accStart>>

\* printf("Lift force = %f N\n", liftForce);  return 0;
PrintLift ==
    /\ pc = "print"
    /\ out' = Append(out, "Lift force")
    /\ Exit(0)
    /\ UNCHANGED tokVars
    /\ UNCHANGED <<variant, argc, input, sample, fname, file, lineNo, i, data,
                   Pair, Psat, Pv, Pd, cols, curves, matrix, coeff, v1, v2, A,
                   r, liftForce, ntok, oob, readNull, fgetsCalls, argv1Read, divByZero,
                   nonFinite, defined, cellsRead, curveWrites, vReads,
                   sqrtArgs, accStart>>

Next ==
    \/ MainArgs
    \/ CopyFname
    \/ AllocData
    \/ OpenFile
    \/ ReadLine
    \/ Pressures
    \/ SplitColumns
    \/ CombineCurves
    \/ BuildMatrix
    \/ DistFromSamples
    \/ VelocityLoop
    \/ Average
    \/ AreaDensity
    \/ ComputeLift
    \/ PrintLift

Spec == Init /\ [][Next]_vars

(***************************************************************************)
(* The token-level specification: the body of read_csv's for loop, applied *)
(* to every token of at most MaxTokLen characters.                         *)
(***************************************************************************)
TokChars == {"1", "2", "3", ",", ".", "-"}

RECURSIVE TokensOfLen(_)
TokensOfLen(n) ==
    IF n = 0 THEN {<<>>}
    ELSE {Append(t, ch) : t \in TokensOfLen(n - 1), ch \in TokChars}

Tokens == UNION {TokensOfLen(n) : n \in 0..MaxTokLen}

InitTok ==
    /\ variant = "v3a" /\ argc = 2 /\ input = NoInput
    /\ sample \in Samples("v3a")
    /\ pc = "fgets"
    /\ fname = "argv1" /\ file = "open" /\ lineNo = 0 /\ i = 0
    /\ data = <<>>
    /\ Pair = 0 /\ Psat = 0 /\ Pv = 0 /\ Pd = 0
    /\ cols = <<>> /\ curves = <<>> /\ matrix = <<>> /\ coeff = <<>>
    /\ v1 = 0 /\ v2 = 0 /\ A = 0 /\ r = 0 /\ liftForce = 0
    /\ accStart = [v1 |-> 0, v2 |-> 0]
    /\ out = <<>> /\ exitStatus = 0 - 1 /\ ntok = <<>> /\ oob = {}
    /\ readNull = FALSE /\ argv1Read = TRUE /\ divByZero = {}
    /\ fgetsCalls = {}
    /\ nonFinite = FALSE /\ defined = {} /\ cellsRead = {}
    /\ curveWrites = <<>> /\ vReads = [v1 |-> {}, v2 |-> {}]
    /\ sqrtArgs = {}
    /\ tok \in Tokens
    /\ normTok = <<>> /\ value = 0 /\ pcTok = "normalize"

progVars == <<variant, argc, input, sample, pc, fname, file, lineNo, i, data,
              Pair, Psat, Pv, Pd, cols, curves, matrix, coeff, v1, v2, A, r,
              liftForce, out, exitStatus, ntok, oob, readNull, fgetsCalls, argv1Read,
              divByZero, nonFinite, defined, cellsRead, curveWrites, vReads,
              sqrtArgs, accStart>>

\* while (tok[index] != '\0') { if (tok[index] == ',') tok[index] = '.'; index++; }
NormalizeToken ==
    /\ pcTok = "normalize"
    /\ normTok' = Normalize(tok)
    /\ pcTok' = "convert"
    /\ UNCHANGED <<tok, value>>
    /\ UNCHANGED progVars

\* data[i][j] = atof(tok);
ConvertToken ==
    /\ pcTok = "convert"
    /\ value' = Atof(normTok)
    /\ pcTok' = "stored"
    /\ UNCHANGED <<tok, normTok>>
    /\ UNCHANGED progVars

NextTok ==
    \/ NormalizeToken
    \/ ConvertToken

SpecTok == InitTok /\ [][NextTok]_vars

(***************************************************************************)
(* Properties of the four programs.                                         *)
(***************************************************************************)
Range(seq) == {seq[k] : k \in 1..Len(seq)}
Printed(what) == what \in Range(out)

\* the velocity main squares first, and second, by the surface it was
\* accumulated from
VOver == IF V1Surface(variant) = "over" THEN v1 ELSE v2
VUnder == IF V1Surface(variant) = "under" THEN v1 ELSE v2

\* C1: in every program the lift that is reported is
\* density * A * (v_over^2 - v_under^2) / 2: the first squared term of
\* main's expression is the velocity accumulated from the over-surface
\* coefficients, the second the one accumulated from the under-surface
\* coefficients.
C1_LiftIsOverMinusUnder ==
    (pc = "exited" /\ Printed("Lift force"))
        => liftForce = LiftOf(r, A, VOver, VUnder)

\* the coefficients of one surface, as the program holds them: the table of
\* v1 and v2, the half of the coefficient array in v3
SurfaceCps(surf) ==
    IF IsV3(variant)
    THEN [k \in 0..(row - 2) |->
            coeff[IF surf = "over" THEN k ELSE row - 1 + k]]
    ELSE IF surf = "over" THEN Arr(OverTable) ELSE Arr(UnderTable)

\* the average of V * sqrt(|1 - Cp|) over every position of the surface
MeanVelocity(cps) ==
    Quot(SumTo([k \in DOMAIN cps |-> V * Sqrt(Fabs(Unit - cps[k]))],
               SizeOf(cps)),
         SizeOf(cps))

\* C2: for each surface, the velocity handed to the lift formula is the sum
\* of V * sqrt(|1 - Cp[i]|) over exactly the positions of that surface,
\* divided by the number of positions of that surface.
C2_VelocityIsSurfaceAverage ==
    pc \in {"density", "lift", "print"}
        => /\ VOver = MeanVelocity(SurfaceCps("over"))
           /\ VUnder = MeanVelocity(SurfaceCps("under"))

\* C3: in both v3 programs the sample matrix handed to the library holds,
\* for every scenario j and position p, the value of curve j at position p.
C3_MatrixHoldsCurves ==
    (IsV3(variant) /\ pc = "dist" /\ input.kind = "ok")
        => \A j \in 0..(sampleCount - 1) : \A p \in 0..(totalLength - 1) :
              matrix[j][p] = curves[j][p]

\* the columns of the table that hold the over- and the under-surface curve
\* of scenario 0 (10 degrees), 1 (5 degrees) and 2 (0 degrees)
AngleCols ==
    [j \in 0..(sampleCount - 1) |->
        CASE j = 0 -> [over |-> 1, under |-> 6]
          [] j = 1 -> [over |-> 2, under |-> 5]
          [] j = 2 -> [over |-> 3, under |-> 4]]

\* cell data[k][c] was assigned by read_csv
Assigned(k, c) == c < ntok[k]

\* C4: in the v3 programs row 0 and column 0 of the table contribute no
\* coefficient; the combined curve of each angle holds that angle's
\* over-surface column at positions 0..row-2 and the same angle's
\* under-surface column at positions row-1..2*(row-1)-1; every position is
\* assigned exactly once; the velocity loop reads v_over from positions
\* 0..row-2 only and v_under from positions row-1..2*(row-1)-1 only.
C4_CurveAssembly ==
    IsV3(variant) =>
        /\ \A cell \in cellsRead : cell[1] >= 1 /\ cell[2] >= 1
        /\ pc \in {"matrix", "dist", "velocity", "average", "density", "lift",
                   "print"}
              => /\ \A j \in 0..(sampleCount - 1) : \A q \in 0..(row - 2) :
                      /\ Assigned(q + 1, AngleCols[j].over)
                            => curves[j][q] = data[q + 1][AngleCols[j].over]
                      /\ Assigned(q + 1, AngleCols[j].under)
                            => curves[j][q + row - 1]
                                  = data[q + 1][AngleCols[j].under]
                 /\ DOMAIN curveWrites = 0..(2 * (row - 1) - 1)
                 /\ \A p \in DOMAIN curveWrites : curveWrites[p] = 1
        /\ pc \in {"average", "density", "lift", "print"}
              => /\ vReads.v1 = 0..(row - 2)
                 /\ vReads.v2 = (row - 1)..(2 * (row - 1) - 1)

\* a v3 program has read a complete table, combined the curves and run the
\* velocity loop over them
C4_Witness ==
    /\ IsV3(variant) /\ input.kind = "ok" /\ pc = "print"
    /\ \A k \in 1..(row - 1) : ntok[k] = col
    /\ curves[2][0] # curves[2][row - 1]
    /\ vReads.v1 # {}

\* C5: started without the table path (argc = 1), the angle-of-attack
\* program prints the usage message and exits with status 0, before argv[1]
\* is read, before a file is opened and before a lift is printed.
C5_UsageOnMissingArgument ==
    (variant = "v3a" /\ argc = 1 /\ pc # "main")
        => /\ pc = "exited" /\ exitStatus = 0
           /\ out = <<"usage">>
           /\ ~argv1Read
           /\ file = "unset"

\* C6: in both v3 programs, a table file that cannot be opened aborts the
\* run with a non-zero exit status; fgets is never called on the unopened
\* stream and no lift is printed.
C6_UnreadableTableAborts ==
    (IsV3(variant) /\ file = NULL)
        => /\ ~readNull
           /\ ~Printed("Lift force")
           /\ pc = "exited" => exitStatus # 0

RECURSIVE Fields(_)
\* the fields of a line: the strings between its ';', the empty ones too
Fields(line) ==
    LET e == SkipUntil(line, 1, {";"})
    IN  IF e > Len(line) THEN <<line>>
        ELSE <<SubSeq(line, 1, e - 1)>> \o Fields(Tail0(line, e + 1))

\* the line without its line end
Chomp(line) ==
    IF Len(line) > 0 /\ line[Len(line)] = "\n"
    THEN SubSeq(line, 1, Len(line) - 1) ELSE line

\* a decimal number: an optional sign, digits, and optionally '.' and digits
IsNumeric(t) ==
    LET d == IF Len(t) > 0 /\ t[1] = "-" THEN 2 ELSE 1
        ip == IntPart(t, d, 0)
        fp == IF ip.next <= Len(t) /\ t[ip.next] = "."
              THEN FracPart(t, ip.next + 1, Unit \div 10, 0)
              ELSE [val |-> 0, next |-> ip.next]
    IN  /\ ip.next > d
        /\ fp.next = Len(t) + 1
        /\ (ip.next <= Len(t) => fp.next > ip.next + 1)

\* row k of the file has col fields, and its fields 1..6 are numbers once
\* ',' is '.'
RowWellFormed(f, k) ==
    /\ k < NumLines(f)
    /\ LET fl == Fields(Chomp(FileLine(f, k)))
       IN  /\ Len(fl) = col
           /\ k >= 1 => \A c \in 1..(col - 1) :
                 IsNumeric([n \in 1..Len(fl[c + 1]) |->
                     IF fl[c + 1][n] = "," THEN "." ELSE fl[c + 1][n]])

WellFormed(f) == \A k \in 0..(row - 1) : RowWellFormed(f, k)

\* cell data[k][c] holds the number written at row k, column c of the file
CellFromFile(k, c) ==
    /\ Assigned(k, c)
    /\ RowWellFormed(input, k)
    /\ data[k][c] = Atof([n \in 1..Len(Fields(Chomp(FileLine(input, k)))[c + 1]) |->
          IF Fields(Chomp(FileLine(input, k)))[c + 1][n] = "," THEN "."
          ELSE Fields(Chomp(FileLine(input, k)))[c + 1][n]])

\* C7: a table with a row of other than 7 columns, with an empty or
\* non-numeric token, or with fewer than 140 rows aborts the run with a
\* non-zero exit status; every cell loadInputs reads was assigned by
\* read_csv from the numeric token at that row and column of the file.
C7_MalformedTableAborts ==
    (IsV3(variant) /\ file = "open")
        => /\ (pc = "exited" /\ ~WellFormed(input)) => exitStatus # 0
           /\ \A cell \in cellsRead : CellFromFile(cell[1], cell[2])

\* C8: no denominator of the pressure and density formulas is 0, whatever
\* value of its support the temperature takes.
C8_NoZeroDenominator ==
    /\ divByZero = {}
    /\ ~nonFinite

\* the coefficients the velocity loop has processed
ProcessedCps ==
    {V1Array(variant, coeff)[p] : p \in vReads.v1}
        \cup {V2Array(variant, coeff)[p] : p \in vReads.v2}

RECURSIVE Twins(_)
\* the tokens that differ from s only in ',' against '.'
Twins(s) ==
    IF Len(s) = 0 THEN {<<>>}
    ELSE {<<ch>> \o t :
            ch \in (IF Head(s) \in {",", "."} THEN {",", "."} ELSE {Head(s)}),
            t \in Twins(Tail(s))}

\* C10: normalisation replaces every ',' by '.' and leaves every other
\* character and the length as they are; it is idempotent; a token written
\* with ',' and the same token written with '.' are the same string when
\* they reach atof and yield the same number; the token is normalised
\* before it is converted.
C10_Normalization ==
    pcTok \in {"convert", "stored"} =>
        /\ Len(normTok) = Len(tok)
        /\ \A k \in 1..Len(tok) :
              normTok[k] = IF tok[k] = "," THEN "." ELSE tok[k]
        /\ Normalize(normTok) = normTok
        /\ \A t \in Twins(tok) :
              /\ Normalize(t) = normTok
              /\ ParseToken(t) = Atof(normTok)
        /\ pcTok = "stored" => value = ParseToken(tok)

\* the token "1,23" was normalised and converted to 1.23
C10_Witness ==
    /\ pcTok = "stored"
    /\ tok = <<"1", ",", "2", "3">>
    /\ normTok = <<"1", ".", "2", "3">>
    /\ value = 12300


(***************************************************************************)
(* The scalar reference: steps 1 to 6 of the lift formula on plain         *)
(* numbers.                                                                *)
(***************************************************************************)
\* steps 1 to 4: the density of the air from T, h and Rh
ReferenceDensity(T, h, Rh) ==
    LET pair == PairOf(T, h)
        pv == PvOf(PsatOf(T), Rh)
    IN  DensityOf(pair - pv, pv, T)

\* steps 5 and 6: each velocity averaged over the positions of its surface,
\* then density * A * (v_over^2 - v_under^2) / 2
ReferenceLift ==
    LiftOf(ReferenceDensity(sample.T, sample.h, sample.Rh), Area,
           MeanVelocity(SurfaceCps("over")),
           MeanVelocity(SurfaceCps("under")))

\* the run had single values for T, h and Rh away from the poles of the
\* formulas, a complete table where it reads one, and accumulators that
\* happened to start at 0
ReferenceApplies ==
    /\ KelvinDen(sample.T) # 0
    /\ SatDen(sample.T) # 0
    /\ IsV3(variant) => input.kind = "ok"
    /\ accStart = [v1 |-> 0, v2 |-> 0]

\* C11: with the same single-valued T, h, Rh, V, A and the same over- and
\* under-surface coefficients, every program reports the lift of the scalar
\* reference formula: same constants, same operand order in the difference
\* of the squares, same averaging divisor.
C11_LiftEqualsScalarReference ==
    (pc = "exited" /\ Printed("Lift force") /\ ReferenceApplies)
        => liftForce = ReferenceLift


\* C12: read_csv is memory safe on every file: no write data[i][j] has
\* i >= row or j >= col, however many lines the file has and however many
\* tokens a line has, and every call of fgets passes a size that is at most
\* the size of the line buffer, in both copies of read_csv.
C12_ReadCsvMemorySafe ==
    /\ i <= row
    /\ oob = {}
    /\ \A call \in fgetsCalls : call.size <= call.buf


\* the program is past the velocity loop
SummationDone ==
    pc \in {"average", "density", "lift", "print"}
        \/ (pc = "exited" /\ Printed("Lift force"))

\* C13: the reported lift depends on the inputs only: in every program *v1
\* and *v2 hold 0 when the velocity loop performs its first '+=', and A, v1,
\* v2 and r were assigned a defined value before main's lift expression
\* reads them.
C13_LiftIsFunctionOfInputs ==
    /\ SummationDone => accStart = [v1 |-> 0, v2 |-> 0]
    /\ (pc = "print" \/ (pc = "exited" /\ Printed("Lift force")))
          => {"A", "v1", "v2", "r"} \subseteq defined


\* the number of entries the tables are documented to have: 12 rows of 7
TableEntries == 12 * 7

\* C14: in v1 and v2 the over-surface and the under-surface tables both
\* have 12 * 7 = 84 entries, so the one velocity loop, bounded by the
\* over-surface table's entry count, visits every entry of both tables once
\* and each divisor equals the number of terms added to its velocity.
C14_TablesSameLength ==
    (variant \in {"v1", "v2"} /\ SummationDone)
        => /\ Len(OverTable) = TableEntries
           /\ Len(UnderTable) = TableEntries
           /\ vReads.v1 = DOMAIN V1Array(variant, coeff)
           /\ vReads.v2 = DOMAIN V2Array(variant, coeff)
           /\ V1Divisor(variant) = Cardinality(vReads.v1)
           /\ V2Divisor(variant) = Cardinality(vReads.v2)

=============================================================================
